---- MODULE Spec2Model ----
(***************************************************************************)
(* A model of iconpicker.py (class IconPicker).                            *)
(*                                                                         *)
(* Strings are tuples of one-character strings, so that strip, split,      *)
(* sub, lower, endswith and float are computed character by character.     *)
(* A Python float is a record [neg, mag]: its sign bit and its magnitude   *)
(* in thousandths (so -0.0 is [neg |-> TRUE, mag |-> 0]); every input      *)
(* drawn below has at most three fractional digits and every quotient     *)
(* the model forms is exact in thousandths.                                *)
(***************************************************************************)
EXTENDS Integers, Sequences, FiniteSets, TLC

VARIABLES fs, req, res, log

vars == <<fs, req, res, log>>

----------------------------------------------------------------------------
(* Characters and strings                                                  *)

Digits == <<"0", "1", "2", "3", "4", "5", "6", "7", "8", "9">>

IsDigit(c) == \E i \in 1..10 : Digits[i] = c

DigitVal(c) == (CHOOSE i \in 1..10 : Digits[i] = c) - 1

DigitChar(n) == Digits[n + 1]

UpperLetters == <<"S", "V", "G", "A", "B">>

LowerLetters == <<"s", "v", "g", "a", "b">>

\* [a-zA-Z] over the alphabet the model draws from
IsLetter(c) ==
    \/ c \in {"p", "x", "e", "m", "t", "c", "o", "u"}
    \/ \E i \in 1..Len(UpperLetters) : c = UpperLetters[i] \/ c = LowerLetters[i]

\* str.lower(), one character
LowerChar(c) ==
    IF \E i \in 1..Len(UpperLetters) : UpperLetters[i] = c
    THEN LowerLetters[CHOOSE i \in 1..Len(UpperLetters) : UpperLetters[i] = c]
    ELSE c

\* str.lower()
lower(s) == [i \in 1..Len(s) |-> LowerChar(s[i])]

\* str.endswith(suffix)
endswith(s, suffix) ==
    /\ Len(s) >= Len(suffix)
    /\ SubSeq(s, Len(s) - Len(suffix) + 1, Len(s)) = suffix

\* str.strip(): leading and trailing whitespace removed
RECURSIVE lstrip(_)
lstrip(s) == IF s # <<>> /\ Head(s) = " " THEN lstrip(Tail(s)) ELSE s

RECURSIVE rstrip(_)
rstrip(s) ==
    IF s # <<>> /\ s[Len(s)] = " " THEN rstrip(SubSeq(s, 1, Len(s) - 1)) ELSE s

strip(s) == rstrip(lstrip(s))

IsVbSep(c) == c \in {" ", ","}

\* re.split(r"[ ,]+", s): a maximal run of separators ends the current
\* token; a leading or trailing run leaves an empty token at that end.
RECURSIVE re_split_from(_, _, _, _)
re_split_from(s, i, cur, acc) ==
    IF i > Len(s) THEN Append(acc, cur)
    ELSE IF IsVbSep(s[i])
         THEN IF i > 1 /\ IsVbSep(s[i - 1])
              THEN re_split_from(s, i + 1, cur, acc)
              ELSE re_split_from(s, i + 1, <<>>, Append(acc, cur))
         ELSE re_split_from(s, i + 1, Append(cur, s[i]), acc)

re_split(s) == re_split_from(s, 1, <<>>, <<>>)

\* re.sub(r"[a-zA-Z%]", "", s)
re_sub_units(s) == SelectSeq(s, LAMBDA c : ~(IsLetter(c) \/ c = "%"))

RECURSIVE DigitsVal(_)
DigitsVal(ds) ==
    IF ds = <<>> THEN 0
    ELSE 10 * DigitsVal(SubSeq(ds, 1, Len(ds) - 1)) + DigitVal(ds[Len(ds)])

\* the fraction digits fs as thousandths
FracVal(ds) ==
    DigitsVal(SubSeq(ds \o <<"0", "0", "0">>, 1, 3))

Float(neg, mag) == [neg |-> neg, mag |-> mag]

NoFloat == [neg |-> FALSE, mag |-> -1]

\* float(s): whitespace around s is ignored; then an optional sign, digits
\* with at most one point and at least one digit.  Anything else raises
\* ValueError, modelled as NoFloat.
float(str) ==
    LET s == strip(str)
        signed == s # <<>> /\ Head(s) \in {"-", "+"}
        neg == s # <<>> /\ Head(s) = "-"
        body == IF signed THEN Tail(s) ELSE s
        dots == {i \in 1..Len(body) : body[i] = "."}
        ip == IF dots = {} THEN body
              ELSE SubSeq(body, 1, (CHOOSE i \in dots : TRUE) - 1)
        fp == IF dots = {} THEN <<>>
              ELSE SubSeq(body, (CHOOSE i \in dots : TRUE) + 1, Len(body))
    IN  IF /\ Cardinality(dots) <= 1
           /\ \A i \in 1..Len(body) : IsDigit(body[i]) \/ body[i] = "."
           /\ Len(ip) + Len(fp) >= 1
        THEN Float(neg, DigitsVal(ip) * 1000 + FracVal(fp))
        ELSE NoFloat

IsFloat(x) == x.mag >= 0

----------------------------------------------------------------------------
(* IconPicker._extract_dimensions                                          *)

DefaultDim == Float(FALSE, 100000)

Dims(w, h) == [err |-> "none", w |-> w, h |-> h]

Raised(e) == [err |-> e]

\* a variant that reads width and height first and the viewBox only for
\* want of them
_extract_dimensions_width_first(svg_attributes) ==
    IF "width" \in DOMAIN svg_attributes /\ "height" \in DOMAIN svg_attributes
    THEN LET w == float(re_sub_units(svg_attributes["width"]))
             h == float(re_sub_units(svg_attributes["height"]))
         IN  IF IsFloat(w) /\ IsFloat(h) THEN Dims(w, h)
             ELSE Raised("ValueError")
    ELSE IF "viewBox" \in DOMAIN svg_attributes
         THEN LET vb_parts == re_split(strip(svg_attributes["viewBox"]))
              IN  IF Len(vb_parts) = 4
                  THEN IF \A i \in 1..4 : IsFloat(float(vb_parts[i]))
                       THEN Dims(float(vb_parts[3]), float(vb_parts[4]))
                       ELSE Raised("ValueError")
                  ELSE Dims(DefaultDim, DefaultDim)
         ELSE Dims(DefaultDim, DefaultDim)

_extract_dimensions(svg_attributes) ==
    IF "viewBox" \in DOMAIN svg_attributes
    THEN LET vb_parts == re_split(strip(svg_attributes["viewBox"]))
         IN  IF Len(vb_parts) = 4
             THEN IF \A i \in 1..4 : IsFloat(float(vb_parts[i]))
                  THEN Dims(float(vb_parts[3]), float(vb_parts[4]))
                  ELSE Raised("ValueError")
             ELSE Dims(DefaultDim, DefaultDim)
    ELSE IF "width" \in DOMAIN svg_attributes /\ "height" \in DOMAIN svg_attributes
         THEN LET w == float(re_sub_units(svg_attributes["width"]))
                  h == float(re_sub_units(svg_attributes["height"]))
              IN  IF IsFloat(w) /\ IsFloat(h) THEN Dims(w, h)
                  ELSE Raised("ValueError")
         ELSE Dims(DefaultDim, DefaultDim)

----------------------------------------------------------------------------
(* Float arithmetic and formatting                                         *)

RECURSIVE Pow10(_)
Pow10(n) == IF n = 0 THEN 1 ELSE 10 * Pow10(n - 1)

RECURSIVE NatStr(_)
NatStr(n) ==
    IF n < 10 THEN <<DigitChar(n)>> ELSE Append(NatStr(n \div 10), DigitChar(n % 10))

IntFloat(n) == Float(n < 0, (IF n < 0 THEN -n ELSE n) * 1000)

\* a / b for b # 0
FloatDiv(a, b) == Float(a.neg # b.neg, (a.mag * 1000) \div b.mag)

\* a * b; the library adds the product to a positive zero, so a zero
\* product carries no sign
FloatMul(a, b) ==
    LET m == (a.mag * b.mag) \div 1000 IN Float(m # 0 /\ a.neg # b.neg, m)

RECURSIVE StripZeros(_)
StripZeros(ds) ==
    IF ds # <<>> /\ ds[Len(ds)] = "0" THEN StripZeros(SubSeq(ds, 1, Len(ds) - 1))
    ELSE ds

RECURSIVE Zeros(_)
Zeros(n) == IF n <= 0 THEN <<>> ELSE <<"0">> \o Zeros(n - 1)

\* repr(x) of a float, as "{}".format prints a coordinate: always a point
\* and at least one fraction digit
repr(x) ==
    LET fp == StripZeros(SubSeq(NatStr(1000 + (x.mag % 1000)), 2, 4))
    IN  (IF x.neg THEN <<"-">> ELSE <<>>) \o NatStr(x.mag \div 1000) \o <<".">>
        \o (IF fp = <<>> THEN <<"0">> ELSE fp)

\* q rounded to the nearest multiple of p, in units of p; a tie goes to the
\* even neighbour
RoundDiv(q, p) ==
    LET d == q \div p
        r == q % p
    IN  IF 2 * r > p \/ (2 * r = p /\ d % 2 = 1) THEN d + 1 ELSE d

\* round(x, 2): the float nearest to x with two fraction digits, as
\* [neg, mag] with mag in hundredths; the sign bit of x is kept
round2(x) == [neg |-> x.neg, mag |-> RoundDiv(x.mag, 10)]

GPrecision == 6

\* format(v, "g") of v = round2(x): GPrecision significant digits; fixed
\* notation when the decimal exponent is below GPrecision (it is never
\* below -4 here), scientific notation otherwise; trailing zeros and a bare
\* point are dropped; the sign bit is printed, also for a zero.
format_g(v) ==
    LET sign == IF v.neg THEN <<"-">> ELSE <<>>
        nd == Len(NatStr(v.mag))
        k == IF nd > GPrecision THEN nd - GPrecision ELSE 0
        m0 == RoundDiv(v.mag, Pow10(k))
        carry == k > 0 /\ m0 = Pow10(GPrecision)
        md == NatStr(IF carry THEN Pow10(GPrecision - 1) ELSE m0)
        e == nd - 3 + (IF carry THEN 1 ELSE 0)
        ip == IF e >= 0 THEN SubSeq(md, 1, e + 1) ELSE <<"0">>
        fp == StripZeros(IF e >= 0 THEN SubSeq(md, e + 2, Len(md))
                         ELSE Zeros(-e - 1) \o md)
        mant == StripZeros(md)
        ex == NatStr(e)
    IN  IF v.mag = 0 THEN sign \o <<"0">>
        ELSE IF e < GPrecision
             THEN sign \o ip \o (IF fp = <<>> THEN <<>> ELSE <<".">> \o fp)
             ELSE sign \o <<mant[1]>>
                  \o (IF Len(mant) > 1 THEN <<".">> \o Tail(mant) ELSE <<>>)
                  \o <<"e", "+">> \o (IF Len(ex) < 2 THEN <<"0">> \o ex ELSE ex)

\* the number of digits of s from position i on
RECURSIVE DigitRun(_, _)
DigitRun(s, i) ==
    IF i <= Len(s) /\ IsDigit(s[i]) THEN 1 + DigitRun(s, i + 1) ELSE 0

\* the last position of the match of (-?\d+\.\d+|-?\d+) that starts at i,
\* or 0 when there is none
MatchEnd(s, i) ==
    LET j == IF s[i] = "-" THEN i + 1 ELSE i
        n1 == DigitRun(s, j)
        n2 == IF j + n1 <= Len(s) /\ s[j + n1] = "." THEN DigitRun(s, j + n1 + 1)
              ELSE 0
    IN  IF n1 = 0 THEN 0
        ELSE IF n2 > 0 THEN j + n1 + n2
        ELSE j + n1 - 1

\* lambda m: format(round(float(m.group(0)), 2), "g")
round_repl(tok) == CHOOSE text \in {format_g(v) : v \in {round2(float(tok))}} : TRUE

\* re.sub(r"(-?\d+\.\d+|-?\d+)", round_repl, path_d), left to right
RECURSIVE re_sub_numbers(_, _)
re_sub_numbers(s, i) ==
    IF i > Len(s) THEN <<>>
    ELSE LET e == MatchEnd(s, i)
         IN  IF e = 0 THEN <<s[i]>> \o re_sub_numbers(s, i + 1)
             ELSE round_repl(SubSeq(s, i, e)) \o re_sub_numbers(s, e + 1)

rounded_d(path_d) == CHOOSE text \in {re_sub_numbers(s, 1) : s \in {path_d}} : TRUE

----------------------------------------------------------------------------
(* The file system: fs.dirs is the set of directories and fs.files maps    *)
(* each file to its content.  A path is the tuple of its components.       *)

join(dir, name) == Append(dir, name)

dirname(path) == SubSeq(path, 1, Len(path) - 1)

exists(fsys, path) == path \in fsys.dirs \/ path \in DOMAIN fsys.files

listdir(fsys, dir) ==
    {p[Len(p)] : p \in {q \in fsys.dirs \cup DOMAIN fsys.files :
                          q # <<>> /\ dirname(q) = dir}}

Prefixes(path) == {SubSeq(path, 1, n) : n \in 1..Len(path)}

\* os.makedirs(path, exist_ok=True)
makedirs(fsys, path) ==
    IF path = <<>> THEN [err |-> "FileNotFoundError", fs |-> fsys]
    ELSE IF Prefixes(path) \cap DOMAIN fsys.files # {}
         THEN [err |-> "FileExistsError", fs |-> fsys]
         ELSE [err |-> "none",
               fs |-> [fsys EXCEPT !.dirs = @ \cup Prefixes(path)]]

\* open(path, "w") and f.write(content)
write_file(fsys, path, content) ==
    IF path \in fsys.dirs THEN [err |-> "IsADirectoryError", fs |-> fsys]
    ELSE IF dirname(path) \notin fsys.dirs
         THEN [err |-> "FileNotFoundError", fs |-> fsys]
         ELSE [err |-> "none",
               fs |-> [fsys EXCEPT !.files =
                         [q \in DOMAIN @ \cup {path} |->
                            IF q = path THEN content ELSE @[q]]]]

\* os.remove(path)
remove(fsys, path) ==
    [fsys EXCEPT !.files = [q \in DOMAIN @ \ {path} |-> @[q]]]

GarbageFile == [kind |-> "garbage"]

EmptyFile == [kind |-> "empty"]

\* svg2paths2(input_filepath): the paths and the root attributes of a
\* well-formed document; any other file, or a directory, raises
svg2paths2(fsys, input_filepath) ==
    IF input_filepath \in DOMAIN fsys.files
       /\ fsys.files[input_filepath].kind = "svg"
    THEN [ok |-> TRUE, paths |-> fsys.files[input_filepath].paths,
          svg_attr |-> fsys.files[input_filepath].attrs]
    ELSE [ok |-> FALSE]

----------------------------------------------------------------------------
(* Geometry: a path is a polyline, the tuple of its points <<x, y>>        *)

\* path.scaled(scale_x, scale_y)
scaled(path, scale_x, scale_y) ==
    [i \in 1..Len(path) |-> <<FloatMul(IntFloat(path[i][1]), scale_x),
                              FloatMul(IntFloat(path[i][2]), scale_y)>>]

\* scaled_path.d(): "M x,y" for the start and " L x,y" for every later point
RECURSIVE path_d_from(_, _)
path_d_from(pts, i) ==
    IF i > Len(pts) THEN <<>>
    ELSE (IF i = 1 THEN <<"M", " ">> ELSE <<" ", "L", " ">>)
         \o repr(pts[i][1]) \o <<",">> \o repr(pts[i][2]) \o path_d_from(pts, i + 1)

path_d(pts) == path_d_from(pts, 1)

----------------------------------------------------------------------------
(* IconPicker._create_svg_dom and IconPicker._process_svg_logic            *)

Element(tag, attrs, children) == [tag |-> tag, attrs |-> attrs, children |-> children]

\* an element's attributes are the set of its <<name, value>> pairs
AttrNames(el) == {a[1] : a \in el.attrs}

StyleText == "\n  svg { --icon-color: #D4D4D4; }\n"

_create_svg_dom(new_width, new_height, add_width_height, add_style) ==
    Element("svg",
        {<<"viewBox", <<"0", " ", "0", " ">> \o NatStr(new_width) \o <<" ">>
                      \o NatStr(new_height)>>}
        \cup (IF add_width_height
              THEN {<<"width", NatStr(new_width)>>, <<"height", NatStr(new_height)>>}
              ELSE {})
        \cup {<<"xmlns", "http://www.w3.org/2000/svg">>,
              <<"fill", "currentColor">>,
              <<"style", "--icon-color:#D4D4D4; fill:var(--icon-color);">>},
        IF add_style THEN <<Element("style", {}, <<StyleText>>)>> ELSE <<>>)

\* one pass of the loop "for path in paths"
path_node(path, scale_x, scale_y) ==
    Element("path", {<<"d", rounded_d(path_d(scaled(path, scale_x, scale_y)))>>}, <<>>)

\* a variant of the loop that puts each path before the ones already there
RECURSIVE append_paths_prepending(_, _, _, _, _)
append_paths_prepending(svg_node, paths, i, scale_x, scale_y) ==
    IF i > Len(paths) THEN svg_node
    ELSE append_paths_prepending(
            [svg_node EXCEPT !.children = <<path_node(paths[i], scale_x, scale_y)>> \o @],
            paths, i + 1, scale_x, scale_y)

\* the loop "for path in paths": the i-th and later paths, appended in turn
RECURSIVE append_paths(_, _, _, _, _)
append_paths(svg_node, paths, i, scale_x, scale_y) ==
    IF i > Len(paths) THEN svg_node
    ELSE append_paths(
            [svg_node EXCEPT !.children = Append(@, path_node(paths[i], scale_x, scale_y))],
            paths, i + 1, scale_x, scale_y)

\* doc.toprettyxml(...), and the blank lines removed unless minify
serialize(svg_node, minify) ==
    [xml |-> svg_node,
     indent |-> IF minify THEN "\t" ELSE "  ",
     blank_lines_removed |-> ~minify]

\* What a call of _process_svg_logic leaves: the exception raised ("none"
\* for a return), and, each as a tuple that is empty while the line that
\* sets it has not run: the resolved size, the scale factors, the document
\* built and the string returned.
Outcome(err, old, scale, node, ret) ==
    [err |-> err, old |-> old, scale |-> scale, svg_node |-> node, ret |-> ret]

Opts(new_width, new_height, add_style, add_width_height_attributes, minify) ==
    [new_width |-> new_width, new_height |-> new_height, add_style |-> add_style,
     add_width_height_attributes |-> add_width_height_attributes,
     minify |-> minify]

\* "Generate output string" and the return
rendered(old, scale, svg_node, minify) ==
    Outcome("none", old, scale, <<svg_node>>, <<serialize(svg_node, minify)>>)

\* "Build new SVG Document" and "Scale and add paths"
built(paths, old, scale_x, scale_y, o) ==
    rendered(old, <<scale_x, scale_y>>,
             append_paths(_create_svg_dom(o.new_width, o.new_height,
                                          o.add_width_height_attributes, o.add_style),
                          paths, 1, scale_x, scale_y),
             o.minify)

\* a variant of the zero check that looks at the width alone
IsZeroDim_width_only(old_w, old_h) == old_w.mag = 0

IsZeroDim(old_w, old_h) == old_w.mag = 0 \/ old_h.mag = 0

\* the zero check and the two divisions; a division by zero raises
scaled_from(paths, old_w, old_h, o) ==
    IF IsZeroDim(old_w, old_h)
    THEN Outcome("ValueError: Original SVG has 0 width or height, cannot scale.",
                 <<old_w, old_h>>, <<>>, <<>>, <<>>)
    ELSE IF old_w.mag = 0 \/ old_h.mag = 0
    THEN Outcome("ZeroDivisionError", <<old_w, old_h>>, <<>>, <<>>, <<>>)
    ELSE CHOOSE out \in {built(paths, <<old_w, old_h>>, scale_x, scale_y, o) :
                            scale_x \in {FloatDiv(IntFloat(o.new_width), old_w)},
                            scale_y \in {FloatDiv(IntFloat(o.new_height), old_h)}} : TRUE

\* an exception of _extract_dimensions is not caught
resolved(paths, dims, o) ==
    IF dims.err # "none" THEN Outcome(dims.err, <<>>, <<>>, <<>>, <<>>)
    ELSE scaled_from(paths, dims.w, dims.h, o)

\* the try around svg2paths2
parsed_document(parsed, o) ==
    IF ~parsed.ok
    THEN Outcome("ValueError: Failed to parse SVG file", <<>>, <<>>, <<>>, <<>>)
    ELSE CHOOSE out \in {resolved(parsed.paths, dims, o) :
                            dims \in {_extract_dimensions(parsed.svg_attr)}} : TRUE

_process_svg_logic(fsys, input_filepath, new_width, new_height, add_style, add_width_height_attributes, minify) ==
    IF ~exists(fsys, input_filepath)
    THEN Outcome("FileNotFoundError", <<>>, <<>>, <<>>, <<>>)
    ELSE parsed_document(svg2paths2(fsys, input_filepath),
                         Opts(new_width, new_height, add_style,
                              add_width_height_attributes, minify))

----------------------------------------------------------------------------
(* The public entry points.  Each returns the exception raised ("none" for *)
(* a return), the file system it leaves and the records it logged.         *)

LogRecord(level, what, name) == [level |-> level, what |-> what, name |-> name]

\* the with block around f.write(content), and logger.info
saved(written, input_filepath) ==
    [err |-> written.err, fs |-> written.fs,
     log |-> IF written.err = "none"
             THEN <<LogRecord("INFO", "Processed", input_filepath)>> ELSE <<>>]

\* a variant that opens the output file for writing before the content is
\* computed
processed_output_opened_first(fsys, content, input_filepath, output_filepath) ==
    IF content.err # "none"
    THEN [err |-> content.err, fs |-> write_file(fsys, output_filepath, EmptyFile).fs,
          log |-> <<>>]
    ELSE CHOOSE out \in {saved(written, input_filepath) :
                            written \in {write_file(fsys, output_filepath,
                                                    content.ret[1])}} : TRUE

\* content is what _process_svg_logic left; its exception is not caught
processed(fsys, content, input_filepath, output_filepath) ==
    IF content.err # "none" THEN [err |-> content.err, fs |-> fsys, log |-> <<>>]
    ELSE CHOOSE out \in {saved(written, input_filepath) :
                            written \in {write_file(fsys, output_filepath,
                                                    content.ret[1])}} : TRUE

\* made is what os.makedirs left
with_output_dir(made, input_filepath, output_filepath, o) ==
    IF made.err # "none" THEN [err |-> made.err, fs |-> made.fs, log |-> <<>>]
    ELSE CHOOSE out \in
            {processed(made.fs, content, input_filepath, output_filepath) :
                content \in {_process_svg_logic(made.fs, input_filepath,
                                 o.new_width, o.new_height, o.add_style,
                                 o.add_width_height_attributes, o.minify)}} : TRUE

resize_and_format_svg_file(fsys, input_filepath, output_filepath, new_width, new_height, add_style, add_width_height_attributes, minify) ==
    CHOOSE out \in
        {with_output_dir(made, input_filepath, output_filepath,
                         Opts(new_width, new_height, add_style,
                              add_width_height_attributes, minify)) :
            made \in {makedirs(fsys, dirname(output_filepath))}} : TRUE

\* the finally clause: the temporary file is removed if it exists
removed_finally(fsys, tmp_path, out) ==
    [err |-> out.err,
     fs |-> IF exists(fsys, tmp_path) THEN remove(fsys, tmp_path) ELSE fsys,
     ret |-> out.ret]

\* the try block, entered once the with block has ended normally
tried(fsys, tmp_path, o) ==
    CHOOSE left \in
        {removed_finally(fsys, tmp_path, out) :
            out \in {_process_svg_logic(fsys, tmp_path, o.new_width, o.new_height,
                         o.add_style, o.add_width_height_attributes, o.minify)}} : TRUE

\* tempfile.NamedTemporaryFile(mode='w', suffix='.svg', delete=False) makes
\* the empty file tmp_path; tmp.write(svg_content) raises when write_raises
\* (a string utf-8 cannot encode, a full disk), and then the with block
\* only closes the file.  Only after the with block does the try/finally
\* that removes the file begin.
resize_and_format_svg(fsys, tmp_path, svg_content, write_raises, new_width, new_height, add_style, add_width_height_attributes, minify) ==
    IF write_raises
    THEN [err |-> "UnicodeEncodeError",
          fs |-> write_file(fsys, tmp_path, EmptyFile).fs, ret |-> <<>>]
    ELSE tried(write_file(write_file(fsys, tmp_path, EmptyFile).fs, tmp_path,
                          svg_content).fs,
               tmp_path,
               Opts(new_width, new_height, add_style,
                    add_width_height_attributes, minify))

DotSvg == <<".", "s", "v", "g">>

IsSvgName(f) == endswith(lower(f), DotSvg)

\* the except clause: an exception of the call is logged, not raised
caught(st, filename, r) ==
    [fs |-> r.fs,
     log |-> st.log \o r.log \o
             (IF r.err # "none"
              THEN <<LogRecord("ERROR", "Failed to process", filename)>> ELSE <<>>)]

\* a variant of the loop that ends at the first name that fails
RECURSIVE bulk_loop_ended_by_error(_, _, _, _, _, _)
bulk_loop_ended_by_error(st, svg_files, i, input_dir, output_dir, o) ==
    IF i > Len(svg_files) THEN st
    ELSE CHOOSE done \in
            {IF r.err # "none" THEN caught(st, svg_files[i], r)
             ELSE bulk_loop_ended_by_error(caught(st, svg_files[i], r), svg_files,
                                           i + 1, input_dir, output_dir, o) :
                r \in {resize_and_format_svg_file(st.fs,
                          join(input_dir, svg_files[i]),
                          join(output_dir, svg_files[i]), o.new_width,
                          o.new_height, o.add_style,
                          o.add_width_height_attributes, o.minify)}} : TRUE

\* the loop "for filename in svg_files" from the i-th name on; st holds the
\* file system and the log so far
RECURSIVE bulk_loop(_, _, _, _, _, _)
bulk_loop(st, svg_files, i, input_dir, output_dir, o) ==
    IF i > Len(svg_files) THEN st
    ELSE CHOOSE done \in
            {bulk_loop(next, svg_files, i + 1, input_dir, output_dir, o) :
                next \in
                    {caught(st, svg_files[i], r) :
                        r \in {resize_and_format_svg_file(st.fs,
                                  join(input_dir, svg_files[i]),
                                  join(output_dir, svg_files[i]), o.new_width,
                                  o.new_height, o.add_style,
                                  o.add_width_height_attributes, o.minify)}}} : TRUE

\* the last logger.info and the return
completed(done, input_dir) ==
    [err |-> "none", fs |-> done.fs,
     log |-> Append(done.log,
                    LogRecord("INFO", "Batch processing complete.", input_dir))]

\* made is what os.makedirs left; svg_files are the names of the listing
\* that end in .svg
with_listing(made, svg_files, input_dir, output_dir, o) ==
    IF made.err # "none" THEN [err |-> made.err, fs |-> made.fs, log |-> <<>>]
    ELSE IF svg_files = <<>>
    THEN [err |-> "none", fs |-> made.fs,
          log |-> <<LogRecord("WARNING", "No SVG files found", input_dir)>>]
    ELSE CHOOSE out \in
            {completed(done, input_dir) :
                done \in {bulk_loop([fs |-> made.fs,
                                     log |-> <<LogRecord("INFO", "Found", input_dir)>>],
                                    svg_files, 1, input_dir, output_dir, o)}} : TRUE

\* listing is os.listdir(input_dir) in the order the system returns it,
\* read after the output directory has been made
bulk_process(fsys, listing, input_dir, output_subdir, target_width, target_height, add_style, add_width_height_attributes, minify) ==
    IF ~exists(fsys, input_dir)
    THEN [err |-> "FileNotFoundError", fs |-> fsys, log |-> <<>>]
    ELSE CHOOSE out \in
            {with_listing(made, svg_files, input_dir, join(input_dir, output_subdir),
                          Opts(target_width, target_height, add_style,
                               add_width_height_attributes, minify)) :
                made \in {makedirs(fsys, join(input_dir, output_subdir))},
                svg_files \in {SelectSeq(listing, IsSvgName)}} : TRUE

----------------------------------------------------------------------------
(* Inputs.  An attribute value is drawn as the parts it is written from,   *)
(* so that what it denotes is known apart from how the code reads it.      *)

MaxTokens == 4

Numeral(text, val) == [text |-> text, num |-> TRUE, val |-> val]

Word(text) == [text |-> text, num |-> FALSE, val |-> NoFloat]

VbTokens ==
    {Numeral(<<"0">>, Float(FALSE, 0)), Numeral(<<"2", "4">>, Float(FALSE, 24000)),
     Numeral(<<"-", "5">>, Float(TRUE, 5000)),
     Numeral(<<"2", ".", "5">>, Float(FALSE, 2500)), Word(<<"x">>)}

VbSeparators == {<<" ">>, <<",">>}

\* what is written before and after the tokens
VbPads == {<<<<>>, <<>>>>, <<<<" ">>, <<" ">>>>, <<<<",">>, <<>>>>, <<<<>>, <<",">>>>}

TokenLists == UNION {[1..n -> VbTokens] : n \in 0..MaxTokens}

ViewBoxes == [toks : TokenLists, sep : VbSeparators, pad : VbPads]

RECURSIVE JoinTokens(_, _)
JoinTokens(toks, sep) ==
    IF toks = <<>> THEN <<>>
    ELSE IF Len(toks) = 1 THEN toks[1].text
    ELSE toks[1].text \o sep \o JoinTokens(Tail(toks), sep)

VbText(vb) == vb.pad[1] \o JoinTokens(vb.toks, vb.sep) \o vb.pad[2]

Lengths ==
    {[n |-> Numeral(<<"1", "6">>, Float(FALSE, 16000)), unit |-> <<"p", "x">>],
     [n |-> Numeral(<<"5", "0">>, Float(FALSE, 50000)), unit |-> <<"%">>],
     [n |-> Numeral(<<"1", ".", "5">>, Float(FALSE, 1500)), unit |-> <<"e", "m">>],
     [n |-> Numeral(<<"0">>, Float(FALSE, 0)), unit |-> <<>>],
     [n |-> Word(<<"a", "u", "t", "o">>), unit |-> <<>>]}

LengthText(l) == l.n.text \o l.unit

\* zero or one element of S, as a tuple
Opt(S) == {<<>>} \cup {<<x>> : x \in S}

\* the root attribute mapping written from the parts given
Attrs(vb, w, h) ==
    [a \in (IF vb # <<>> THEN {"viewBox"} ELSE {})
           \cup (IF w # <<>> THEN {"width"} ELSE {})
           \cup (IF h # <<>> THEN {"height"} ELSE {}) |->
        IF a = "viewBox" THEN VbText(vb[1])
        ELSE IF a = "width" THEN LengthText(w[1])
        ELSE LengthText(h[1])]

FewLengths == {l \in Lengths : l.unit = <<"p", "x">>}

AttrParts ==
    ({<<>>} \X Opt(Lengths) \X Opt(Lengths))
    \cup ({<<vb>> : vb \in ViewBoxes} \X Opt(FewLengths) \X Opt(FewLengths))

Idle == [op |-> "idle"]

NoFs == [dirs |-> {}, files |-> <<>>]

----------------------------------------------------------------------------
(* SpecDim: _extract_dimensions applied to every mapping of AttrParts      *)

InitDim ==
    /\ fs = NoFs
    /\ log = <<>>
    /\ res = Idle
    /\ req \in {[op |-> "_extract_dimensions", vb |-> p[1], width |-> p[2],
                 height |-> p[3], svg_attributes |-> Attrs(p[1], p[2], p[3])] :
                p \in AttrParts}

ExtractDimensions ==
    /\ req.op = "_extract_dimensions"
    /\ res' = [op |-> req.op, call |-> req,
               out |-> _extract_dimensions(req.svg_attributes)]
    /\ req' = Idle
    /\ UNCHANGED <<fs, log>>

NextDim == ExtractDimensions

SpecDim == InitDim /\ [][NextDim]_vars

DimDone == res.op = "_extract_dimensions"

\* the tokens are written with nothing but whitespace around them
PlainVb(vb) == vb.pad[1] \in {<<>>, <<" ">>} /\ vb.pad[2] \in {<<>>, <<" ">>}

FourNumeric(vb) == Len(vb.toks) = 4 /\ \A i \in 1..4 : vb.toks[i].num

BothNumeric(w, h) == w # <<>> /\ h # <<>> /\ w[1].n.num /\ h[1].n.num

C3_MalformedViewBoxFails ==
    (/\ DimDone
     /\ res.call.vb # <<>>
     /\ PlainVb(res.call.vb[1])
     /\ ~FourNumeric(res.call.vb[1]))
        => res.out.err # "none"

----------------------------------------------------------------------------
(* SpecFmt: the numeric formatter applied to path data "M a" and "M a,b"   *)

IntParts ==
    {<<"0">>, <<"5">>, <<"1", "2">>, <<"9", "9">>, <<"1", "2", "3", "4">>,
     <<"1", "2", "3", "4", "5">>, <<"1", "2", "3", "4", "5", "6">>,
     <<"9", "9", "9", "9", "9", "9">>, <<"1", "0", "0", "0", "0", "0", "0">>,
     <<"1", "2", "3", "4", "5", "6", "7">>}

FracParts ==
    {<<>>, <<"0">>, <<"0", "0">>, <<"5">>, <<"1", "0">>, <<"5", "0">>, <<"9", "9">>,
     <<"0", "0", "1">>, <<"0", "0", "9">>, <<"6", "7", "8">>, <<"8", "9", "1">>}

Literal(neg, ip, fp) ==
    [text |-> (IF neg THEN <<"-">> ELSE <<>>) \o ip
              \o (IF fp = <<>> THEN <<>> ELSE <<".">> \o fp),
     neg |-> neg,
     mag |-> DigitsVal(ip) * 1000 + FracVal(fp)]

Literals == {Literal(neg, ip, fp) : neg \in BOOLEAN, ip \in IntParts, fp \in FracParts}

SecondLiterals ==
    {Literal(FALSE, <<"5">>, <<"0", "0">>), Literal(TRUE, <<"0">>, <<"0", "0", "1">>),
     Literal(FALSE, <<"1", "2">>, <<"6", "7", "8">>)}

Commands == {"M", "L"}

PathData(cmd, a, b) ==
    <<cmd, " ">> \o a.text \o (IF b = <<>> THEN <<>> ELSE <<",">> \o b[1].text)

InitFmt ==
    /\ fs = NoFs
    /\ log = <<>>
    /\ res = Idle
    /\ req \in {[op |-> "rounded_d", cmd |-> cmd, a |-> a, b |-> b,
                 path_d |-> PathData(cmd, a, b)] :
                cmd \in Commands, a \in Literals, b \in Opt(SecondLiterals)}

FormatNumbers ==
    /\ req.op = "rounded_d"
    /\ res' = [op |-> req.op, call |-> req, out |-> rounded_d(req.path_d)]
    /\ req' = Idle
    /\ UNCHANGED <<fs, log>>

NextFmt == FormatNumbers

SpecFmt == InitFmt /\ [][NextFmt]_vars

\* the value of a literal rounded to 2 decimal places (mag in thousandths;
\* no literal drawn lies half way), in plain decimal notation without
\* trailing zeros, without a bare point and without a sign on zero
Canonical(lit) ==
    LET h == (lit.mag + 5) \div 10
        fp == StripZeros(SubSeq(NatStr(100 + (h % 100)), 2, 3))
    IN  (IF lit.neg /\ h # 0 THEN <<"-">> ELSE <<>>) \o NatStr(h \div 100)
        \o (IF fp = <<>> THEN <<>> ELSE <<".">> \o fp)

\* C5: every numeric literal is replaced by its value rounded to 2 decimal
\* places in shortest canonical decimal form (never scientific notation,
\* never -0), and every other character passes through unchanged.
C5_CanonicalDecimal ==
    res.op = "rounded_d" =>
        res.out = <<res.call.cmd, " ">> \o Canonical(res.call.a)
                  \o (IF res.call.b = <<>> THEN <<>>
                      ELSE <<",">> \o Canonical(res.call.b[1]))

----------------------------------------------------------------------------
(* SpecDoc: one call of _process_svg_logic, resize_and_format_svg_file or  *)
(* resize_and_format_svg                                                   *)

MaxPaths == 2

PathPool == {<<<<0, 0>>, <<24, 24>>>>, <<<<1, 2>>, <<3, 0>>>>}

PathLists == UNION {[1..n -> PathPool] : n \in 0..MaxPaths}

Tok(text) == CHOOSE t \in VbTokens : t.text = text

\* "0 0 w h" and "0 0 w"
DocViewBoxes ==
    {[toks |-> <<Tok(<<"0">>), Tok(<<"0">>), w, h>>, sep |-> <<" ">>,
      pad |-> <<<<>>, <<>>>>] :
        w \in VbTokens \ {Tok(<<"2", ".", "5">>)},
        h \in VbTokens \ {Tok(<<"-", "5">>), Tok(<<"x">>)}}
    \cup {[toks |-> <<Tok(<<"0">>), Tok(<<"0">>), Tok(<<"2", "4">>)>>,
           sep |-> <<" ">>, pad |-> <<<<>>, <<>>>>]}

Len16px == CHOOSE l \in Lengths : l.unit = <<"p", "x">>

DocAttrParts ==
    {<<<<vb>>, <<>>, <<>>>> : vb \in DocViewBoxes}
    \cup ({<<>>} \X Opt({l \in Lengths : l.unit = <<>>} \cup {Len16px})
                 \X Opt({Len16px}))

\* a well-formed document, with the parts its root attributes are written from
Document(parts, paths) ==
    [kind |-> "svg", attrs |-> Attrs(parts[1], parts[2], parts[3]),
     paths |-> paths, parts |-> parts]

Documents == {Document(parts, paths) : parts \in DocAttrParts, paths \in PathLists}

StaleFile == [kind |-> "stale"]

InputPath == <<"in", "icon.svg">>

OutputPaths == {<<"out", "icon.svg">>, <<"icon.svg">>}

TmpPath == <<"tmp", "tmp1.svg">>

File(path, content) == [p \in {path} |-> content]

\* the input file missing, not well-formed or a document; the output
\* directory missing, empty or holding an earlier output
DocFileSystems ==
    {[dirs |-> {<<"in">>, <<"tmp">>} \cup outdir, files |-> input @@ output] :
        input \in {<<>>} \cup {File(InputPath, c) : c \in {GarbageFile} \cup Documents},
        outdir \in {{}, {<<"out">>}},
        output \in {<<>>, File(<<"out", "icon.svg">>, StaleFile)}}

TargetSizes == {24, 48}

Options == [new_width : TargetSizes, new_height : TargetSizes, add_style : BOOLEAN,
            add_width_height_attributes : BOOLEAN, minify : BOOLEAN]

\* the file systems a call of each kind is drawn with
LogicFileSystems == {f \in DocFileSystems : f.dirs = {<<"in">>, <<"tmp">>}}

FileFileSystems ==
    {f \in DocFileSystems : DOMAIN f.files \subseteq {InputPath} \/ <<"out">> \in f.dirs}

\* the options the two public entry points are called with
FewOptions == {o \in Options : o.new_width = 48 /\ ~o.minify}

DocRequests ==
    {[op |-> "_process_svg_logic", input_filepath |-> InputPath, o |-> o] :
        o \in Options}
    \cup {[op |-> "resize_and_format_svg_file", input_filepath |-> InputPath,
           output_filepath |-> out, o |-> o] : out \in OutputPaths, o \in FewOptions}
    \cup {[op |-> "resize_and_format_svg", svg_content |-> c, write_raises |-> w,
           tmp_path |-> TmpPath, o |-> o] :
            c \in {GarbageFile} \cup Documents, w \in BOOLEAN, o \in FewOptions}

InitDoc ==
    /\ log = <<>>
    /\ res = Idle
    /\ req \in DocRequests
    /\ fs \in IF req.op = "_process_svg_logic" THEN LogicFileSystems
              ELSE IF req.op = "resize_and_format_svg_file" THEN FileFileSystems
              ELSE {[dirs |-> {<<"in">>, <<"tmp">>}, files |-> <<>>]}

ProcessSvgLogic ==
    /\ req.op = "_process_svg_logic"
    /\ res' = [op |-> req.op, call |-> req, fs0 |-> fs,
               out |-> _process_svg_logic(fs, req.input_filepath, req.o.new_width,
                           req.o.new_height, req.o.add_style,
                           req.o.add_width_height_attributes, req.o.minify)]
    /\ req' = Idle
    /\ UNCHANGED <<fs, log>>

ResizeAndFormatSvgFile ==
    /\ req.op = "resize_and_format_svg_file"
    /\ \E r \in {resize_and_format_svg_file(fs, req.input_filepath,
                    req.output_filepath, req.o.new_width, req.o.new_height,
                    req.o.add_style, req.o.add_width_height_attributes,
                    req.o.minify)} :
           /\ res' = [op |-> req.op, call |-> req, fs0 |-> fs, out |-> r]
           /\ fs' = r.fs
           /\ log' = log \o r.log
    /\ req' = Idle

ResizeAndFormatSvg ==
    /\ req.op = "resize_and_format_svg"
    /\ \E r \in {resize_and_format_svg(fs, req.tmp_path, req.svg_content,
                    req.write_raises, req.o.new_width, req.o.new_height,
                    req.o.add_style, req.o.add_width_height_attributes,
                    req.o.minify)} :
           /\ res' = [op |-> req.op, call |-> req, fs0 |-> fs, out |-> r]
           /\ fs' = r.fs
    /\ req' = Idle
    /\ UNCHANGED log

NextDoc == ProcessSvgLogic \/ ResizeAndFormatSvgFile \/ ResizeAndFormatSvg

SpecDoc == InitDoc /\ [][NextDoc]_vars

----------------------------------------------------------------------------
(* What the parts a document is written from say of its processing         *)

DocOps == {"_process_svg_logic", "resize_and_format_svg_file", "resize_and_format_svg"}

\* the file a completed call read, as a tuple: empty when there was none
InputOf(r) ==
    IF r.op = "resize_and_format_svg" THEN <<r.call.svg_content>>
    ELSE IF r.call.input_filepath \in DOMAIN r.fs0.files
    THEN <<r.fs0.files[r.call.input_filepath]>>
    ELSE <<>>

\* the size the root attributes denote is zero in width or in height
ZeroSized(parts) ==
    IF parts[1] # <<>>
    THEN /\ FourNumeric(parts[1][1])
         /\ parts[1][1].toks[3].val.mag = 0 \/ parts[1][1].toks[4].val.mag = 0
    ELSE /\ BothNumeric(parts[2], parts[3])
         /\ parts[2][1].n.val.mag = 0 \/ parts[3][1].n.val.mag = 0

\* a token of a 4-token viewBox, or a width or height read for want of a
\* viewBox, is not a number
NotANumber(parts) ==
    IF parts[1] # <<>>
    THEN Len(parts[1][1].toks) = 4 /\ ~FourNumeric(parts[1][1])
    ELSE parts[2] # <<>> /\ parts[3] # <<>> /\ ~BothNumeric(parts[2], parts[3])

ZeroError == "ValueError: Original SVG has 0 width or height, cannot scale."

\* the first error on the way of a file through _process_svg_logic
FirstError(input) ==
    IF input = <<>> THEN "FileNotFoundError"
    ELSE IF input[1].kind # "svg" THEN "ValueError: Failed to parse SVG file"
    ELSE IF NotANumber(input[1].parts) THEN "ValueError"
    ELSE IF ZeroSized(input[1].parts) THEN ZeroError
    ELSE "none"

LogicDone == res.op = "_process_svg_logic"

FileDone == res.op = "resize_and_format_svg_file"

StringDone == res.op = "resize_and_format_svg"

\* C4: a source whose resolved width or height is exactly zero fails with
\* the zero-dimension error, raised after the size is resolved and before
\* a scale factor is computed or a document built; the file entry point
\* then writes no file and the string entry point returns nothing.
C4_ZeroDimensionFails ==
    (/\ res.op \in DocOps
     /\ InputOf(res) # <<>>
     /\ InputOf(res)[1].kind = "svg"
     /\ ZeroSized(InputOf(res)[1].parts)
     /\ StringDone => ~res.call.write_raises
     /\ FileDone => dirname(res.call.output_filepath) # <<>>)
        => /\ res.out.err = ZeroError
           /\ LogicDone => /\ res.out.old # <<>>
                           /\ res.out.scale = <<>>
                           /\ res.out.svg_node = <<>>
                           /\ res.out.ret = <<>>
           /\ FileDone => fs.files = res.fs0.files
           /\ StringDone => res.out.ret = <<>>

\* viewBox="0 0 24 0": the width is fine, the height is zero
C4_Witness ==
    /\ LogicDone
    /\ InputOf(res) # <<>> /\ InputOf(res)[1].kind = "svg"
    /\ InputOf(res)[1].parts[1] # <<>>
    /\ Len(InputOf(res)[1].parts[1][1].toks) = 4
    /\ InputOf(res)[1].parts[1][1].toks[3].val = Float(FALSE, 24000)
    /\ InputOf(res)[1].parts[1][1].toks[4].val = Float(FALSE, 0)
    /\ res.out.err = ZeroError
    /\ res.out.old = <<Float(FALSE, 24000), Float(FALSE, 0)>>

\* C9: whenever scale factors are computed, the resolved width and height
\* are both strictly positive.
C9_StrictlyPositive ==
    (LogicDone /\ res.out.scale # <<>>)
        => \A i \in 1..2 : ~res.out.old[i].neg /\ res.out.old[i].mag > 0

\* the document a completed call emitted, as a tuple
Emitted(r) ==
    IF r.out.err # "none" THEN <<>>
    ELSE IF r.op = "resize_and_format_svg_file"
    THEN <<fs.files[r.call.output_filepath].xml>>
    ELSE <<r.out.ret[1].xml>>

IsPathElement(el) == el.tag = "path"

IsOtherElement(el) == el.tag # "path"

\* C6: the emitted document has one <path> per input path, the k-th the
\* scaled and formatted k-th input path, each with the d attribute alone,
\* after the one <style> element if there is one.
C6_PathsInOrder ==
    (res.op \in DocOps /\ Emitted(res) # <<>>)
        => LET paths == InputOf(res)[1].paths
               svg == Emitted(res)[1]
               kids == SelectSeq(svg.children, IsPathElement)
               old == _extract_dimensions(InputOf(res)[1].attrs)
               sx == FloatDiv(IntFloat(res.call.o.new_width), old.w)
               sy == FloatDiv(IntFloat(res.call.o.new_height), old.h)
           IN  /\ Len(kids) = Len(paths)
               /\ \A k \in 1..Len(paths) :
                    /\ AttrNames(kids[k]) = {"d"}
                    /\ kids[k].attrs =
                         {<<"d", rounded_d(path_d(scaled(paths[k], sx, sy)))>>}
               /\ svg.children = SelectSeq(svg.children, IsOtherElement) \o kids
               /\ Len(svg.children) = Len(paths) + (IF res.call.o.add_style THEN 1 ELSE 0)

\* a 24x24 document resized to 48x24 with a style block: its two distinct
\* paths come out second and third, in the input's order
C6_Witness ==
    /\ LogicDone
    /\ res.out.err = "none"
    /\ res.call.o.add_style
    /\ InputOf(res)[1].paths = <<<<<<1, 2>>, <<3, 0>>>>, <<<<0, 0>>, <<24, 24>>>>>>
    /\ res.out.old = <<Float(FALSE, 24000), Float(FALSE, 24000)>>
    /\ res.call.o.new_width = 48 /\ res.call.o.new_height = 24
    /\ Len(res.out.ret[1].xml.children) = 3
    /\ res.out.ret[1].xml.children[2].attrs
         = {<<"d", <<"M", " ", "2", ",", "2", " ", "L", " ", "6", ",", "0">>>>}
    /\ res.out.ret[1].xml.children[3].attrs
         = {<<"d", <<"M", " ", "0", ",", "0", " ", "L", " ", "4", "8", ",", "2", "4">>>>}

\* C7 as stated: a call of resize_and_format_svg_file that ends with an
\* error has written nothing.
C7_NothingWritten ==
    (FileDone /\ res.out.err # "none") => fs = res.fs0

\* C7 amended: a call of resize_and_format_svg_file that ends with an error
\* raises the first error on the file's way, logs nothing, and leaves every
\* file as it was: none is created at output_filepath and one already there
\* keeps its content.  All it may have done is to make the missing parent
\* directories of output_filepath.
C7_NoFileWritten ==
    FileDone =>
        LET out == res.call.output_filepath
            bare == dirname(out) = <<>>
        IN  /\ res.out.err = (IF bare THEN "FileNotFoundError"
                              ELSE FirstError(InputOf(res)))
            /\ res.out.err # "none" =>
                 /\ fs.files = res.fs0.files
                 /\ fs.dirs = res.fs0.dirs \cup (IF bare THEN {} ELSE Prefixes(dirname(out)))
                 /\ res.out.log = <<>>
                 /\ log = <<>>

\* a zero-sized document: the error is raised and the earlier output file
\* is still there, untouched
C7_Witness ==
    /\ FileDone
    /\ res.out.err = ZeroError
    /\ res.call.output_filepath \in DOMAIN res.fs0.files
    /\ fs.files[res.call.output_filepath] = StaleFile

\* C10: once a call of resize_and_format_svg has returned or raised, no
\* temporary file is left.
C10_NoTemporaryFileLeft ==
    StringDone => \A p \in DOMAIN fs.files : p[1] # "tmp"

----------------------------------------------------------------------------
(* bulk_process over a folder of icons, called again after an icon has     *)
(* been replaced.  Names are spelt out, for lower() and endswith() to act. *)

MaxCalls == 2

InputDir == <<<<"i", "c", "o", "n", "s">>>>

OutputSubdir == <<"o", "u", "t">>

OutputDir == join(InputDir, OutputSubdir)

\* the names that end in .svg whatever the case, and one that does not
SvgNames == {<<"a", ".", "s", "v", "g">>, <<"B", ".", "S", "v", "G">>}

OtherNames == {<<"n", ".", "t", "x", "t">>}

PlainViewBox(w, h) ==
    [toks |-> <<Tok(<<"0">>), Tok(<<"0">>), Tok(w), Tok(h)>>, sep |-> <<" ">>,
     pad |-> <<<<>>, <<>>>>]

\* viewBox="0 0 24 24"
Icon24 == Document(<<<<PlainViewBox(<<"2", "4">>, <<"2", "4">>)>>, <<>>, <<>>>>,
                   <<<<<<0, 0>>, <<24, 24>>>>>>)

\* width="16px" height="16px"
Icon16 == Document(<<<<>>, <<Len16px>>, <<Len16px>>>>, <<<<<<1, 2>>, <<3, 0>>>>>>)

IconContents == {Icon24, Icon16, GarbageFile}

\* a folder of some of the names, the output subdirectory not yet made
Folders ==
    UNION {[{join(InputDir, n) : n \in S} ->  IconContents] :
            S \in SUBSET (SvgNames \cup OtherNames)}

BulkFileSystems ==
    {[dirs |-> {InputDir}, files |-> f] :
        f \in {g \in Folders :
                \A n \in OtherNames :
                    join(InputDir, n) \in DOMAIN g => g[join(InputDir, n)] = GarbageFile}}
    \cup {NoFs}

BulkOptions == {Opts(48, 48, FALSE, FALSE, FALSE)}

RECURSIVE Orders(_)
Orders(S) ==
    IF S = {} THEN {<<>>}
    ELSE UNION {{<<x>> \o p : p \in Orders(S \ {x})} : x \in S}

\* os.listdir gives the entries in an order of its own
Listings(fsys, dir) == Orders(listdir(fsys, dir))

InitBulk ==
    /\ log = <<>>
    /\ res = Idle
    /\ fs \in BulkFileSystems
    /\ req \in {[op |-> "bulk_process", input_dir |-> InputDir,
                 output_subdir |-> OutputSubdir, o |-> o, calls |-> 0] :
                    o \in BulkOptions}

BulkProcess ==
    /\ req.op = "bulk_process"
    /\ req.calls < MaxCalls
    /\ \E listing \in Listings(makedirs(fs, join(req.input_dir, req.output_subdir)).fs,
                               req.input_dir) :
         \E r \in {bulk_process(fs, listing, req.input_dir, req.output_subdir,
                      req.o.new_width, req.o.new_height, req.o.add_style,
                      req.o.add_width_height_attributes, req.o.minify)} :
             /\ res' = [op |-> req.op, call |-> req, fs0 |-> fs, out |-> r]
             /\ fs' = r.fs
             /\ log' = log \o r.log
    /\ req' = [req EXCEPT !.calls = @ + 1]

\* between two calls the user saves another content in one of the icons
ReplaceIcon ==
    /\ res.op = "bulk_process"
    /\ req.calls < MaxCalls
    /\ \E n \in SvgNames, c \in IconContents :
         /\ join(InputDir, n) \in DOMAIN fs.files
         /\ fs.files[join(InputDir, n)] # c
         /\ fs' = write_file(fs, join(InputDir, n), c).fs
    /\ res' = [op |-> "replaced"]
    /\ UNCHANGED <<req, log>>

NextBulk == BulkProcess \/ ReplaceIcon

SpecBulk == InitBulk /\ [][NextBulk]_vars

BulkDone == res.op = "bulk_process" /\ exists(res.fs0, InputDir)

\* the icons of the folder at the call: its files named *.svg in any case
IconsOf(r) == {n \in SvgNames : join(InputDir, n) \in DOMAIN r.fs0.files}

\* what the icon n held at the call is a document that can be resized
IsSound(r, n) == FirstError(<<r.fs0.files[join(InputDir, n)]>>) = "none"

\* the positions of the call's log at which n is reported done, and failed
DoneAt(r, n) ==
    {i \in DOMAIN r.out.log :
        r.out.log[i] = LogRecord("INFO", "Processed", join(InputDir, n))}

FailedAt(r, n) ==
    {i \in DOMAIN r.out.log :
        r.out.log[i] = LogRecord("ERROR", "Failed to process", n)}

\* C1 as stated, its last part: at the end of a call exactly the icons
\* processed with success have an output file, and a failing icon has none.
C1_ExactlySuccessfulHaveOutput ==
    BulkDone =>
        \A n \in IconsOf(res) :
            join(OutputDir, n) \in DOMAIN fs.files <=> DoneAt(res, n) # {}

\* C1 amended: bulk_process returns without raising whatever the folder
\* holds.  It attempts each *.svg file (any case) exactly once and no other
\* entry; a sound one is reported done and its output file holds the
\* document made from it by this call, a failing one is reported with one
\* error and the file at its output path, if an earlier call left one, is
\* as it was; the files of the folder are not touched.
C1_EachIconAttemptedOnce ==
    BulkDone =>
        /\ res.out.err = "none"
        /\ \A i \in DOMAIN res.out.log :
             res.out.log[i].what \in {"Processed", "Failed to process"}
                => \E n \in IconsOf(res) : i \in DoneAt(res, n) \cup FailedAt(res, n)
        /\ \A n \in IconsOf(res) :
             IF IsSound(res, n)
             THEN /\ Cardinality(DoneAt(res, n)) = 1 /\ FailedAt(res, n) = {}
                  /\ join(OutputDir, n) \in DOMAIN fs.files
                  /\ fs.files[join(OutputDir, n)] =
                       _process_svg_logic(res.fs0, join(InputDir, n),
                           res.call.o.new_width, res.call.o.new_height,
                           res.call.o.add_style,
                           res.call.o.add_width_height_attributes,
                           res.call.o.minify).ret[1]
             ELSE /\ Cardinality(FailedAt(res, n)) = 1 /\ DoneAt(res, n) = {}
                  /\ join(OutputDir, n) \in DOMAIN fs.files
                        <=> join(OutputDir, n) \in DOMAIN res.fs0.files
                  /\ join(OutputDir, n) \in DOMAIN fs.files
                        => fs.files[join(OutputDir, n)]
                             = res.fs0.files[join(OutputDir, n)]
        /\ \A p \in DOMAIN res.fs0.files :
             p \in DOMAIN fs.files /\ (dirname(p) = InputDir => fs.files[p] = res.fs0.files[p])
        /\ \A p \in DOMAIN fs.files :
             p \in DOMAIN res.fs0.files \/ \E n \in IconsOf(res) : p = join(OutputDir, n)
        /\ IconsOf(res) # {} =>
             res.out.log[Len(res.out.log)].what = "Batch processing complete."

\* a second call, after an icon that was sound has been replaced by one that
\* is not: it is reported failed, the output of the first call is still
\* there, and an icon listed after it is reported done
C1_Witness ==
    /\ BulkDone
    /\ res.call.calls = 1
    /\ \E n \in IconsOf(res), m \in IconsOf(res) :
         /\ ~IsSound(res, n)
         /\ join(OutputDir, n) \in DOMAIN fs.files
         /\ \E i \in FailedAt(res, n), j \in DoneAt(res, m) : i < j

\* C8: a call on an existing folder with no *.svg file returns without
\* raising, logs one warning and leaves the file system as it was.
C8_NoSvgIsNoOp ==
    (BulkDone /\ IconsOf(res) = {})
        => /\ res.out.err = "none"
           /\ res.out.log = <<LogRecord("WARNING", "No SVG files found", InputDir)>>
           /\ fs = res.fs0

====
